---- MODULE Spec2Model ----
(***************************************************************************)
(* Order / payment / wallet settlement flow of the CarCo marketplace       *)
(* backend (Django apps `payments`).  Money is counted in whole units of   *)
(* the smallest currency step.  A timestamp field holds 0 for NULL and     *)
(* otherwise the ordinal of the timezone.now() reading stored in it: each  *)
(* new reading stored in a field is later than the one the row held.       *)
(*                                                                         *)
(* A Django model instance is a private copy of a database row: a handler  *)
(* reads the row into an instance, changes the instance, and save() writes *)
(* every field of the instance back.  No handler of the repository opens a *)
(* transaction or locks a row, so the steps of two requests interleave at  *)
(* the granularity of single queries.                                      *)
(***************************************************************************)
EXTENDS Integers, Sequences, FiniteSets, TLC

(***************************************************************************)
(* Bounds of the model                                                     *)
(***************************************************************************)
MaxAmount == 2
MaxWalletOps == 3
MaxOrders == 1
MaxPrice == 1
MaxStamps == 2
MaxCallbacks == 2
MaxRefunds == 1
MaxDiscountValue == 2
MaxUses == 1
MaxTime == 2

WalletProcs == {"w1", "w2"}
Amounts == (0 - MaxAmount)..MaxAmount

VARIABLES
    wallet,     \* the seller's Wallet row: balance, total_earned, total_spent
    wtx,        \* the WalletTransaction rows of that wallet, oldest first
    wproc,      \* per wallet request: its position, its Wallet instance, its result
    wops,       \* number of wallet calls started so far
    orders,     \* the Order rows, by order number
    payments,   \* the Payment rows, by the order they belong to (OneToOneField)
    cb,         \* per gateway callback request in flight: its position and instances
    received,   \* number of gateway callback requests received so far
    last,       \* the last response: handler, order, HTTP status, handler's result
    refunds,    \* the Refund rows, by refund id
    issued,     \* how many order numbers and refund ids have been generated so far
    discount,   \* the Discount row a code names
    dlast       \* the last response of the discounts resource

walletVars == <<wallet, wtx, wproc, wops>>
payVars == <<orders, payments, cb, received, last, refunds, issued>>
discountVars == <<discount, dlast>>
vars == <<wallet, wtx, wproc, wops, orders, payments, cb, received, last, refunds, issued,
          discount, dlast>>

(***************************************************************************)
(* Wallet (payments/models.py)                                             *)
(***************************************************************************)
NewWallet == [balance |-> 0, total_earned |-> 0, total_spent |-> 0]

WalletTransaction(type, amount) == [transaction_type |-> type, amount |-> amount]

add_balance_no_earned(w, amount) ==
    [w EXCEPT !.balance = @ + amount]

\* Wallet.add_balance, the field updates before save()
add_balance(w, amount) ==
    [w EXCEPT !.balance = @ + amount, !.total_earned = @ + amount]

\* Wallet.deduct_balance, the field updates before save()
deduct_balance(w, amount) ==
    [w EXCEPT !.balance = @ - amount, !.total_spent = @ + amount]

has_balance_nonnegative(w, amount) == w.balance >= 0

\* Wallet.deduct_balance, its only guard
has_balance(w, amount) == w.balance >= amount

IdleWalletProc ==
    [pc |-> "idle", op |-> "none", amount |-> 0, inst |-> NewWallet, ret |-> "none"]

\* A request (served by the first worker that is free) obtains the Wallet
\* instance, a read of the row, and is about to call add_balance or
\* deduct_balance on it with the given amount.
WalletGet(p, op, amount) ==
    /\ wproc[p].pc = "idle"
    /\ \A q \in WalletProcs : wproc[q].pc = "idle" => ~(q = "w1" /\ p = "w2")
    /\ wops < MaxWalletOps
    /\ wops' = wops + 1
    /\ wproc' = [wproc EXCEPT ![p] =
          [pc |-> "called", op |-> op, amount |-> amount, inst |-> wallet, ret |-> "none"]]
    /\ UNCHANGED <<wallet, wtx>>

\* add_balance up to and including self.save()
AddBalanceSave(p) ==
    /\ wproc[p].pc = "called"
    /\ wproc[p].op = "credit"
    /\ LET w == add_balance(wproc[p].inst, wproc[p].amount)
       IN /\ wallet' = w
          /\ wproc' = [wproc EXCEPT ![p].inst = w, ![p].pc = "saved"]
    /\ UNCHANGED <<wtx, wops>>

\* deduct_balance, sufficient balance: up to and including self.save()
DeductBalanceSave(p) ==
    /\ wproc[p].pc = "called"
    /\ wproc[p].op = "debit"
    /\ has_balance(wproc[p].inst, wproc[p].amount)
    /\ LET w == deduct_balance(wproc[p].inst, wproc[p].amount)
       IN /\ wallet' = w
          /\ wproc' = [wproc EXCEPT ![p].inst = w, ![p].pc = "saved"]
    /\ UNCHANGED <<wtx, wops>>

\* deduct_balance, insufficient balance: return False
DeductBalanceRefuse(p) ==
    /\ wproc[p].pc = "called"
    /\ wproc[p].op = "debit"
    /\ ~has_balance(wproc[p].inst, wproc[p].amount)
    /\ wproc' = [wproc EXCEPT ![p] = [IdleWalletProc EXCEPT !.ret = "False"]]
    /\ UNCHANGED <<wallet, wtx, wops>>

\* WalletTransaction.objects.create(...) and the return
WalletRecord(p) ==
    /\ wproc[p].pc = "saved"
    /\ wtx' = Append(wtx, WalletTransaction(wproc[p].op, wproc[p].amount))
    /\ wproc' = [wproc EXCEPT ![p] = [IdleWalletProc EXCEPT
                        !.ret = IF wproc[p].op = "debit" THEN "True" ELSE "None"]]
    /\ UNCHANGED <<wallet, wops>>

(***************************************************************************)
(* Order (payments/models.py, payments/serializers.py, payments/views.py)  *)
(***************************************************************************)
OrderIds == 1..MaxOrders
Users == {"buyer", "seller", "admin", "other"}
Prices == 0..MaxPrice
OrderStatuses ==
    {"pending", "confirmed", "processing", "shipped", "delivered", "cancelled", "refunded"}
PricingFields == {"subtotal", "tax_amount", "shipping_cost", "discount_amount", "total_amount"}
None == "None"

total_without_discount(o) ==
    [o EXCEPT !.total_amount = o.subtotal + o.tax_amount + o.shipping_cost]

\* Order.calculate_total
calculate_total(o) ==
    [o EXCEPT !.total_amount =
        o.subtotal + o.tax_amount + o.shipping_cost - o.discount_amount]

\* Order.mark_as_confirmed, before save()
mark_as_confirmed(o, now) ==
    [o EXCEPT !.status = "confirmed", !.confirmed_at = now]

\* Order.mark_as_shipped, before save()
mark_as_shipped(o, now, tracking_number, tracking_url) ==
    [o EXCEPT !.status = "shipped", !.shipped_at = now,
              !.tracking_number = IF tracking_number # None THEN tracking_number ELSE @,
              !.tracking_url = IF tracking_url # None THEN tracking_url ELSE @]

\* Order.mark_as_delivered, before save()
mark_as_delivered(o, now) ==
    [o EXCEPT !.status = "delivered", !.delivered_at = now]

\* Order.cancel_order, before save()
cancel_order(o, now) ==
    [o EXCEPT !.status = "cancelled", !.cancelled_at = now]

\* Order(**validated_data) in OrderCreateSerializer.create: the model's defaults
NewOrder(buyer, seller, sub, tax, ship, disc) ==
    [buyer |-> buyer, seller |-> seller, status |-> "pending",
     subtotal |-> sub, tax_amount |-> tax, shipping_cost |-> ship,
     discount_amount |-> disc, total_amount |-> 0,
     tracking_number |-> None, tracking_url |-> None,
     confirmed_at |-> 0, shipped_at |-> 0, delivered_at |-> 0, cancelled_at |-> 0]

\* The response of the request that has just finished
Respond(op, o, code) == last' = [op |-> op, order |-> o, code |-> code, result |-> None]

\* timezone.now(), read to replace the stored reading `held`
CanStamp(held) == held < MaxStamps
Now(held) == held + 1

\* OrderViewSet.get_queryset + get_object: the order exists and the user is a party
Visible(o, u) == o \in DOMAIN orders /\ u \in {orders[o].buyer, orders[o].seller}

\* The order number OrderCreateSerializer.create generates: one not used before,
\* also not by an order that has been deleted since
NextOrderNumber == issued.orders + 1

\* OrderViewSet.create + OrderCreateSerializer.create; seller is the seller of the
\* car or part looked up, o the order number generated
OrderCreate(o, u, seller, sub, tax, ship, disc) ==
    /\ o = NextOrderNumber
    /\ orders' = orders @@ (o :> calculate_total(NewOrder(u, seller, sub, tax, ship, disc)))
    /\ issued' = [issued EXCEPT !.orders = o]
    /\ Respond("order_create", o, 201)
    /\ UNCHANGED <<payments, cb, received, refunds>>

\* OrderViewSet.partial_update (ModelViewSet, OrderSerializer): one writable field
OrderUpdate(o, u, field, value) ==
    /\ IF ~Visible(o, u)
       THEN Respond("order_update", o, 404) /\ UNCHANGED orders
       ELSE /\ orders' = [orders EXCEPT ![o][field] = value]
            /\ Respond("order_update", o, 200)
    /\ UNCHANGED <<payments, cb, received, refunds, issued>>

confirm_any_status(o) == TRUE

\* OrderViewSet.confirm: the test on the order's status
confirm_allowed(o) == o.status = "pending"

\* OrderViewSet.confirm
OrderConfirm(o, u) ==
    /\ IF ~Visible(o, u)
       THEN Respond("confirm", o, 404) /\ UNCHANGED orders
       ELSE IF orders[o].buyer # u
       THEN Respond("confirm", o, 403) /\ UNCHANGED orders
       ELSE IF ~confirm_allowed(orders[o])
       THEN Respond("confirm", o, 400) /\ UNCHANGED orders
       ELSE /\ CanStamp(orders[o].confirmed_at)
            /\ orders' = [orders EXCEPT ![o] = mark_as_confirmed(@, Now(@.confirmed_at))]
            /\ Respond("confirm", o, 200)
    /\ UNCHANGED <<payments, cb, received, refunds, issued>>

\* OrderViewSet.ship
OrderShip(o, u, tracking_number, tracking_url) ==
    /\ IF ~Visible(o, u)
       THEN Respond("ship", o, 404) /\ UNCHANGED orders
       ELSE IF orders[o].seller # u
       THEN Respond("ship", o, 403) /\ UNCHANGED orders
       ELSE /\ CanStamp(orders[o].shipped_at)
            /\ orders' = [orders EXCEPT ![o] =
                    mark_as_shipped(@, Now(@.shipped_at), tracking_number, tracking_url)]
            /\ Respond("ship", o, 200)
    /\ UNCHANGED <<payments, cb, received, refunds, issued>>

\* OrderViewSet.deliver
OrderDeliver(o, u) ==
    /\ IF ~Visible(o, u)
       THEN Respond("deliver", o, 404) /\ UNCHANGED orders
       ELSE IF orders[o].buyer # u
       THEN Respond("deliver", o, 403) /\ UNCHANGED orders
       ELSE /\ CanStamp(orders[o].delivered_at)
            /\ orders' = [orders EXCEPT ![o] = mark_as_delivered(@, Now(@.delivered_at))]
            /\ Respond("deliver", o, 200)
    /\ UNCHANGED <<payments, cb, received, refunds, issued>>

\* OrderViewSet.cancel
OrderCancel(o, u) ==
    /\ IF ~Visible(o, u)
       THEN Respond("cancel", o, 404) /\ UNCHANGED orders
       ELSE IF orders[o].buyer # u /\ orders[o].seller # u
       THEN Respond("cancel", o, 403) /\ UNCHANGED orders
       ELSE IF orders[o].status \notin {"pending", "confirmed"}
       THEN Respond("cancel", o, 400) /\ UNCHANGED orders
       ELSE /\ CanStamp(orders[o].cancelled_at)
            /\ orders' = [orders EXCEPT ![o] = cancel_order(@, Now(@.cancelled_at))]
            /\ Respond("cancel", o, 200)
    /\ UNCHANGED <<payments, cb, received, refunds, issued>>

(***************************************************************************)
(* Payment (payments/models.py, payments/views.py)                         *)
(***************************************************************************)
NoTransactionId == <<"", 0>>
EmptyResponse == [kind |-> "none", tran_id |-> 0, val_id |-> 0]

\* Payment(...) with the model's defaults
NewPayment(amount, transaction_id) ==
    [status |-> "pending", amount |-> amount, transaction_id |-> transaction_id,
     gateway_response |-> EmptyResponse, error_message |-> None, processed_at |-> 0]

\* Payment.mark_as_completed, the payment's part before save()
mark_as_completed(pay, now) ==
    [pay EXCEPT !.status = "completed", !.processed_at = now]

\* The unique index on Payment.transaction_id: no row of another order holds it
TransactionIdFree(o, transaction_id) ==
    \A o2 \in DOMAIN payments : o2 # o => payments[o2].transaction_id # transaction_id

\* PaymentViewSet.create: PaymentCreateSerializer, then Payment.mark_as_completed
PaymentCreate(o, u, amount) ==
    /\ IF o \notin DOMAIN orders \/ o \in DOMAIN payments
       THEN Respond("payment_create", o, 400) /\ UNCHANGED <<orders, payments>>
       ELSE IF orders[o].buyer # u
       THEN Respond("payment_create", o, 403) /\ UNCHANGED <<orders, payments>>
       ELSE /\ CanStamp(orders[o].confirmed_at)
            /\ payments' = payments @@
                  (o :> mark_as_completed(NewPayment(amount, <<"TXN", o>>), Now(0)))
            /\ orders' = [orders EXCEPT ![o] = mark_as_confirmed(@, Now(@.confirmed_at))]
            /\ Respond("payment_create", o, 201)
    /\ UNCHANGED <<cb, received, refunds, issued>>

\* PaymentViewSet.initiate_sslcommerz + SSLCommerczPaymentGateway.initiate_payment;
\* gw is the status the gateway answers; no answer at all ends like "FAILED"
PaymentInitiate(o, u, gw) ==
    /\ IF o \notin DOMAIN orders \/ orders[o].buyer # u
       THEN Respond("initiate_sslcommerz", o, 404) /\ UNCHANGED payments
       ELSE IF o \notin DOMAIN payments /\ ~TransactionIdFree(o, NoTransactionId)
       THEN Respond("initiate_sslcommerz", o, 500) /\ UNCHANGED payments
       ELSE LET row == IF o \in DOMAIN payments THEN payments[o]
                       ELSE NewPayment(orders[o].total_amount, NoTransactionId)
                session == [kind |-> "session", tran_id |-> o, val_id |-> 0]
            IN IF gw = "SUCCESS"
               THEN /\ payments' = (o :> [row EXCEPT !.gateway_response = session]) @@ payments
                    /\ Respond("initiate_sslcommerz", o, 200)
               ELSE /\ payments' = (o :> row) @@ payments
                    /\ Respond("initiate_sslcommerz", o, 400)
    /\ UNCHANGED <<orders, cb, received, refunds, issued>>

PaymentStatuses ==
    {"pending", "processing", "completed", "failed", "cancelled", "refunded"}

\* PaymentViewSet.partial_update (ModelViewSet, PaymentSerializer): status is
\* among the writable fields; get_queryset shows a payment to the order's parties
PaymentUpdate(o, u, value) ==
    /\ IF o \notin DOMAIN payments \/ ~Visible(o, u)
       THEN Respond("payment_update", o, 404) /\ UNCHANGED payments
       ELSE /\ payments' = [payments EXCEPT ![o].status = value]
            /\ Respond("payment_update", o, 200)
    /\ UNCHANGED <<orders, cb, received, refunds, issued>>

\* PaymentViewSet.retry
PaymentRetry(o, u) ==
    /\ IF o \notin DOMAIN payments \/ ~Visible(o, u)
       THEN Respond("retry", o, 404) /\ UNCHANGED payments
       ELSE IF orders[o].buyer # u
       THEN Respond("retry", o, 403) /\ UNCHANGED payments
       ELSE IF payments[o].status # "failed"
       THEN Respond("retry", o, 400) /\ UNCHANGED payments
       ELSE /\ payments' = [payments EXCEPT ![o].status = "processing"]
            /\ Respond("retry", o, 200)
    /\ UNCHANGED <<orders, cb, received, refunds, issued>>

(***************************************************************************)
(* Refund (payments/models.py, payments/views.py)                          *)
(***************************************************************************)
RefundIds == 1..MaxRefunds
RefundStatuses == {"pending", "approved", "processing", "completed", "rejected"}

is_staff_anyone(u) == TRUE

\* request.user.is_staff
is_staff(u) == u = "admin"

\* Refund(...) with the model's defaults; its payment is the Payment of its order
NewRefund(o, amount) ==
    [order |-> o, status |-> "pending", refund_amount |-> amount,
     approved_at |-> 0, completed_at |-> 0]

\* Refund.approve_refund, before save()
approve_refund(r, now) == [r EXCEPT !.status = "approved", !.approved_at = now]

\* Refund.complete_refund, the refund's part before save()
complete_refund(r, now) == [r EXCEPT !.status = "completed", !.completed_at = now]

\* RefundViewSet.get_queryset + get_object: the refund exists and the user is a
\* party of its order
RefundVisible(r, u) == r \in DOMAIN refunds /\ Visible(refunds[r].order, u)

\* The refund id generated: one not used before
NextRefundId == issued.refunds + 1

\* RefundViewSet.create: RefundCreateSerializer (order and payment must name rows,
\* refund_amount passes MinValueValidator(0)), the buyer test, the payment lookup
RefundCreate(r, u, o, pay, amount) ==
    /\ r = NextRefundId
    /\ r \in RefundIds
    /\ IF o \notin DOMAIN orders \/ pay \notin DOMAIN payments \/ amount < 0
       THEN Respond("refund_create", o, 400) /\ UNCHANGED <<refunds, issued>>
       ELSE IF orders[o].buyer # u
       THEN Respond("refund_create", o, 403) /\ UNCHANGED <<refunds, issued>>
       ELSE IF o \notin DOMAIN payments
       THEN Respond("refund_create", o, 400) /\ UNCHANGED <<refunds, issued>>
       ELSE /\ refunds' = refunds @@ (r :> NewRefund(o, amount))
            /\ issued' = [issued EXCEPT !.refunds = r]
            /\ Respond("refund_create", o, 201)
    /\ UNCHANGED <<orders, payments, cb, received>>

\* RefundViewSet.approve
RefundApprove(r, u) ==
    /\ IF ~RefundVisible(r, u)
       THEN Respond("refund_approve", 0, 404) /\ UNCHANGED refunds
       ELSE IF ~is_staff(u)
       THEN Respond("refund_approve", refunds[r].order, 403) /\ UNCHANGED refunds
       ELSE /\ CanStamp(refunds[r].approved_at)
            /\ refunds' = [refunds EXCEPT ![r] = approve_refund(@, Now(@.approved_at))]
            /\ Respond("refund_approve", refunds[r].order, 200)
    /\ UNCHANGED <<orders, payments, cb, received, issued>>

\* RefundViewSet.complete: Refund.complete_refund saves the refund, then loads
\* its order, sets the order's status and saves the order
RefundComplete(r, u) ==
    /\ IF ~RefundVisible(r, u)
       THEN Respond("refund_complete", 0, 404) /\ UNCHANGED <<refunds, orders>>
       ELSE IF ~is_staff(u)
       THEN Respond("refund_complete", refunds[r].order, 403) /\ UNCHANGED <<refunds, orders>>
       ELSE /\ CanStamp(refunds[r].completed_at)
            /\ refunds' = [refunds EXCEPT ![r] = complete_refund(@, Now(@.completed_at))]
            /\ orders' = [orders EXCEPT ![refunds[r].order].status = "refunded"]
            /\ Respond("refund_complete", refunds[r].order, 200)
    /\ UNCHANGED <<payments, cb, received, issued>>

\* RefundViewSet.partial_update (ModelViewSet, RefundSerializer): status is among
\* the writable fields and no staff test is made
RefundUpdate(r, u, value) ==
    /\ IF ~RefundVisible(r, u)
       THEN Respond("refund_update", 0, 404) /\ UNCHANGED refunds
       ELSE /\ refunds' = [refunds EXCEPT ![r].status = value]
            /\ Respond("refund_update", refunds[r].order, 200)
    /\ UNCHANGED <<orders, payments, cb, received, issued>>

\* OrderViewSet.destroy (ModelViewSet): the order is deleted and, by
\* on_delete=CASCADE, its Payment and its Refunds with it
OrderDestroy(o, u) ==
    /\ IF ~Visible(o, u)
       THEN Respond("order_destroy", o, 404) /\ UNCHANGED <<orders, payments, refunds>>
       ELSE /\ orders' = [k \in DOMAIN orders \ {o} |-> orders[k]]
            /\ payments' = [k \in DOMAIN payments \ {o} |-> payments[k]]
            /\ refunds' = [k \in {r \in DOMAIN refunds : refunds[r].order # o} |-> refunds[k]]
            /\ Respond("order_destroy", o, 204)
    /\ UNCHANGED <<cb, received, issued>>

(***************************************************************************)
(* Discount (payments/models.py, payments/serializers.py, payments/views.py)*)
(* Amounts of discounts are counted in hundredths of the money unit, so    *)
(* that amount * discount_value / 100 is exact.                            *)
(***************************************************************************)
Times == 0..MaxTime
OrderAmounts == 0..MaxAmount
DiscountValues == 0..MaxDiscountValue

\* A nullable number column: the empty set for NULL, {n} for the number n
Optional(S) == {{}} \cup {{n} : n \in S}
ValueOf(x) == CHOOSE n \in x : TRUE

\* The Discount rows an administrator can have stored
Discounts ==
    [discount_type : {"percentage", "fixed"},
     discount_value : DiscountValues,
     max_discount_amount : Optional(DiscountValues),
     min_order_amount : 0..1,
     max_uses : Optional(0..MaxUses),
     max_uses_per_user : {1},
     status : {"active", "inactive", "expired"},
     valid_from : Times,
     valid_until : Times,
     times_used : 0..MaxUses]

\* Python's truth value of an optional number: None and 0 are false
Truthy(x) == x # {} /\ x # {0}

\* Discount.is_valid, with now the reading of timezone.now()
is_valid(d, now) ==
    IF d.status # "active" THEN FALSE
    ELSE IF now < d.valid_from \/ now > d.valid_until THEN FALSE
    ELSE IF Truthy(d.max_uses) /\ d.times_used >= ValueOf(d.max_uses) THEN FALSE
    ELSE TRUE

Min(a, b) == IF a <= b THEN a ELSE b

\* Discount.calculate_discount, the result in hundredths
calculate_discount(d, amount) ==
    IF d.discount_type = "percentage"
    THEN LET pct == amount * d.discount_value
         IN IF Truthy(d.max_discount_amount)
            THEN Min(pct, 100 * ValueOf(d.max_discount_amount))
            ELSE pct
    ELSE 100 * d.discount_value

DiscountRespond(op, code, u, now, order_amount, discount_amount) ==
    dlast' = [op |-> op, code |-> code, user |-> u, now |-> now,
              order_amount |-> order_amount, discount_amount |-> discount_amount]

\* DiscountViewSet.validate + DiscountValidateSerializer
DiscountValidate(u, now, order_amount) ==
    /\ IF ~is_valid(discount, now) \/ order_amount < discount.min_order_amount
       THEN DiscountRespond("validate", 400, u, now, order_amount, 0)
       ELSE DiscountRespond("validate", 200, u, now, order_amount,
                            calculate_discount(discount, order_amount))
    /\ UNCHANGED discount

\* DiscountViewSet.apply + DiscountApplySerializer
DiscountApply(u, now) ==
    /\ IF ~is_valid(discount, now)
       THEN DiscountRespond("apply", 400, u, now, 0, 0)
       ELSE DiscountRespond("apply", 200, u, now, 0, 0)
    /\ UNCHANGED discount

(***************************************************************************)
(* Gateway callbacks (payments/sslcommerz.py, payments/sslcommerz_urls.py) *)
(***************************************************************************)
CallbackProcs == {"c1", "c2"}
ValIds == {1}
NoInstance == [status |-> "none"]
NoValidation == [success |-> FALSE, status |-> "not asked"]
IdleCallback ==
    [pc |-> "idle", kind |-> "none", tran_id |-> 0, val_id |-> 0, err |-> None,
     order |-> NoInstance, payment |-> NoInstance, validation |-> NoValidation]

\* What validate_payment can return: an error, or the status the gateway reports
ValidationResults ==
    {[success |-> FALSE, status |-> "none"],
     [success |-> TRUE, status |-> "VALID"],
     [success |-> TRUE, status |-> "INVALID_TRANSACTION"]}

validation_succeeded(validation) == validation.success

\* handle_payment_success: the test on the validation result
validation_passed(validation) == validation.success /\ validation.status = "VALID"

RequestData(p) == [kind |-> cb[p].kind, tran_id |-> cb[p].tran_id, val_id |-> cb[p].val_id]

\* A new callback request is served by the first worker that is free
Free(p) == /\ cb[p].pc = "idle"
           /\ \A q \in CallbackProcs : cb[q].pc = "idle" => ~(q = "c1" /\ p = "c2")

\* The callback request p ends: the handler's result and the view's response
Finish(p, op, code, result) ==
    /\ cb' = [cb EXCEPT ![p] = IdleCallback]
    /\ last' = [op |-> op, order |-> cb[p].tran_id, code |-> code, result |-> result]

\* sslcommerz_success -> handle_payment_success: Order.objects.get(order_number=
\* tran_id), then validation = self.validate_payment(val_id), a call to the
\* gateway that reads and writes no row
SuccessLookup(p, tran_id, val_id, validation) ==
    /\ Free(p)
    /\ received < MaxCallbacks
    /\ received' = received + 1
    /\ UNCHANGED <<refunds, issued>>
    /\ IF tran_id \notin DOMAIN orders
       THEN /\ UNCHANGED cb
            /\ last' = [op |-> "sslcommerz_success", order |-> tran_id, code |-> 400,
                        result |-> "Order not found"]
       ELSE /\ cb' = [cb EXCEPT ![p] = [IdleCallback EXCEPT
                    !.pc = "validated", !.kind = "success", !.tran_id = tran_id,
                    !.val_id = val_id, !.order = orders[tran_id],
                    !.validation = validation]]
            /\ UNCHANGED last
    /\ UNCHANGED <<orders, payments>>

\* handle_payment_success: the test on the validation, then
\* Payment.objects.filter(order=order).first()
SuccessFindPayment(p) ==
    /\ cb[p].pc = "validated"
    /\ UNCHANGED <<received, refunds, issued>>
    /\ IF ~validation_passed(cb[p].validation)
       THEN Finish(p, "sslcommerz_success", 400, "Payment validation failed")
       ELSE IF cb[p].tran_id \notin DOMAIN payments
       THEN Finish(p, "sslcommerz_success", 400, "Payment record not found")
       ELSE /\ cb' = [cb EXCEPT ![p].pc = "save_payment",
                                ![p].payment = payments[cb[p].tran_id]]
            /\ UNCHANGED last
    /\ UNCHANGED <<orders, payments>>

\* handle_payment_success: the four assignments to payment and payment.save();
\* a transaction_id another Payment holds raises, and the handler returns the error
SuccessSavePayment(p) ==
    /\ cb[p].pc = "save_payment"
    /\ UNCHANGED <<received, refunds, issued>>
    /\ LET o == cb[p].tran_id
           transaction_id == <<"VAL", cb[p].val_id>>
       IN IF ~TransactionIdFree(o, transaction_id)
          THEN /\ Finish(p, "sslcommerz_success", 400, "exception")
               /\ UNCHANGED payments
          ELSE /\ CanStamp(payments[o].processed_at)
               /\ LET row == [cb[p].payment EXCEPT
                                 !.status = "completed",
                                 !.transaction_id = transaction_id,
                                 !.gateway_response = RequestData(p),
                                 !.processed_at = Now(payments[o].processed_at)]
                  IN /\ payments' = (o :> row) @@ payments
                     /\ cb' = [cb EXCEPT ![p].pc = "confirm_order", ![p].payment = row]
               /\ UNCHANGED last
    /\ UNCHANGED orders

\* handle_payment_success: order.mark_as_confirmed() and the success result
SuccessConfirmOrder(p) ==
    /\ cb[p].pc = "confirm_order"
    /\ UNCHANGED <<received, refunds, issued>>
    /\ CanStamp(orders[cb[p].tran_id].confirmed_at)
    /\ LET o == cb[p].tran_id
           row == mark_as_confirmed(cb[p].order, Now(orders[o].confirmed_at))
       IN /\ orders' = (o :> row) @@ orders
          /\ Finish(p, "sslcommerz_success", 200, "success")
    /\ UNCHANGED payments

\* sslcommerz_fail -> handle_payment_fail: the order and payment lookups.  The
\* "Order not found" result has no 'message' key, which the view then reads.
FailLookup(p, tran_id, err) ==
    /\ Free(p)
    /\ received < MaxCallbacks
    /\ received' = received + 1
    /\ UNCHANGED <<refunds, issued>>
    /\ IF tran_id \notin DOMAIN orders
       THEN /\ UNCHANGED cb
            /\ last' = [op |-> "sslcommerz_fail", order |-> tran_id, code |-> 500,
                        result |-> "Order not found"]
       ELSE IF tran_id \notin DOMAIN payments
       THEN /\ UNCHANGED cb
            /\ last' = [op |-> "sslcommerz_fail", order |-> tran_id, code |-> 200,
                        result |-> "success"]
       ELSE /\ cb' = [cb EXCEPT ![p] = [IdleCallback EXCEPT
                    !.pc = "save_failed", !.kind = "fail", !.tran_id = tran_id,
                    !.err = IF err = None THEN "Payment failed" ELSE err,
                    !.order = orders[tran_id], !.payment = payments[tran_id]]]
            /\ UNCHANGED last
    /\ UNCHANGED <<orders, payments>>

handle_payment_fail_no_error(payment, error_message, request_data) ==
    [payment EXCEPT !.status = "failed", !.gateway_response = request_data]

\* handle_payment_fail: the three assignments to payment
handle_payment_fail(payment, error_message, request_data) ==
    [payment EXCEPT !.status = "failed",
                    !.error_message = error_message,
                    !.gateway_response = request_data]

\* handle_payment_fail: the assignments to payment and payment.save()
FailSave(p) ==
    /\ cb[p].pc = "save_failed"
    /\ UNCHANGED <<received, refunds, issued>>
    /\ LET o == cb[p].tran_id
           row == handle_payment_fail(cb[p].payment, cb[p].err, RequestData(p))
       IN /\ payments' = (o :> row) @@ payments
          /\ Finish(p, "sslcommerz_fail", 200, "success")
    /\ UNCHANGED orders

\* sslcommerz_cancel -> handle_payment_cancel: the order and payment lookups
CancelLookup(p, tran_id) ==
    /\ Free(p)
    /\ received < MaxCallbacks
    /\ received' = received + 1
    /\ UNCHANGED <<refunds, issued>>
    /\ IF tran_id \notin DOMAIN orders
       THEN /\ UNCHANGED cb
            /\ last' = [op |-> "sslcommerz_cancel", order |-> tran_id, code |-> 500,
                        result |-> "Order not found"]
       ELSE IF tran_id \notin DOMAIN payments
       THEN /\ UNCHANGED cb
            /\ last' = [op |-> "sslcommerz_cancel", order |-> tran_id, code |-> 200,
                        result |-> "success"]
       ELSE /\ cb' = [cb EXCEPT ![p] = [IdleCallback EXCEPT
                    !.pc = "save_cancelled", !.kind = "cancel", !.tran_id = tran_id,
                    !.order = orders[tran_id], !.payment = payments[tran_id]]]
            /\ UNCHANGED last
    /\ UNCHANGED <<orders, payments>>

\* handle_payment_cancel: the two assignments to payment
handle_payment_cancel(payment, request_data) ==
    [payment EXCEPT !.status = "cancelled", !.gateway_response = request_data]

\* handle_payment_cancel: the assignments to payment and payment.save()
CancelSave(p) ==
    /\ cb[p].pc = "save_cancelled"
    /\ UNCHANGED <<received, refunds, issued>>
    /\ LET o == cb[p].tran_id
           row == handle_payment_cancel(cb[p].payment, RequestData(p))
       IN /\ payments' = (o :> row) @@ payments
          /\ Finish(p, "sslcommerz_cancel", 200, "success")
    /\ UNCHANGED orders

(***************************************************************************)
(* Specifications                                                          *)
(***************************************************************************)
PayInit ==
    /\ orders = <<>>
    /\ payments = <<>>
    /\ cb = [p \in CallbackProcs |-> IdleCallback]
    /\ received = 0
    /\ last = [op |-> "none", order |-> 0, code |-> 0, result |-> None]
    /\ refunds = <<>>
    /\ issued = [orders |-> 0, refunds |-> 0]

WalletInit ==
    /\ wallet = NewWallet
    /\ wtx = <<>>
    /\ wproc = [p \in WalletProcs |-> IdleWalletProc]
    /\ wops = 0

\* No discount code exists, no request to the discounts resource was made
NoDiscount == [status |-> "none"]
NoDiscountResponse ==
    [op |-> "none", code |-> 0, user |-> None, now |-> 0, order_amount |-> 0,
     discount_amount |-> 0]

Init ==
    /\ WalletInit
    /\ PayInit
    /\ discount = NoDiscount
    /\ dlast = NoDiscountResponse

WalletNext ==
    \/ \E p \in WalletProcs, op \in {"credit", "debit"}, a \in Amounts : WalletGet(p, op, a)
    \/ \E p \in WalletProcs : AddBalanceSave(p)
    \/ \E p \in WalletProcs : DeductBalanceSave(p)
    \/ \E p \in WalletProcs : DeductBalanceRefuse(p)
    \/ \E p \in WalletProcs : WalletRecord(p)

\* Concurrent calls of Wallet.add_balance and Wallet.deduct_balance
WalletSpec == Init /\ [][WalletNext /\ UNCHANGED <<payVars, discountVars>>]_vars

\* Order numbers a request may name: those of OrderIds and one of no order
AnyOrderIds == 0..MaxOrders

\* The order endpoint with every pricing input, used by both parties, deletion
\* included; payments through the payment endpoint
PricingNext ==
    \/ \E o \in OrderIds, sub \in Prices, tax \in Prices, ship \in Prices, disc \in Prices :
          OrderCreate(o, "buyer", "seller", sub, tax, ship, disc)
    \/ \E o \in OrderIds, u \in {"buyer", "seller"}, f \in PricingFields, v \in Prices :
          OrderUpdate(o, u, f, v)
    \/ \E o \in OrderIds : OrderConfirm(o, "buyer")
    \/ \E o \in OrderIds : OrderShip(o, "seller", None, None)
    \/ \E o \in OrderIds : OrderDeliver(o, "buyer")
    \/ \E o \in OrderIds : OrderCancel(o, "buyer")
    \/ \E o \in OrderIds : PaymentCreate(o, "buyer", orders[o].total_amount)
    \/ \E o \in OrderIds, u \in {"buyer", "other"} : OrderDestroy(o, u)

PricingSpec == Init /\ [][PricingNext /\ UNCHANGED <<walletVars, discountVars>>]_vars

\* Gateway payments: orders of one price that stay as created, gateway
\* initiation, and two gateway callback requests in flight at a time
CallbackNext ==
    \/ \E o \in OrderIds : OrderCreate(o, "buyer", "seller", 1, 0, 0, 0)
    \/ \E o \in OrderIds, u \in {"buyer", "seller"}, gw \in {"SUCCESS", "FAILED"} :
          PaymentInitiate(o, u, gw)
    \/ \E p \in CallbackProcs, t \in AnyOrderIds, v \in ValIds, r \in ValidationResults :
          SuccessLookup(p, t, v, r)
    \/ \E p \in CallbackProcs : SuccessFindPayment(p)
    \/ \E p \in CallbackProcs : SuccessSavePayment(p)
    \/ \E p \in CallbackProcs : SuccessConfirmOrder(p)
    \/ \E p \in CallbackProcs, t \in AnyOrderIds, e \in {None, "declined"} : FailLookup(p, t, e)
    \/ \E p \in CallbackProcs : FailSave(p)
    \/ \E p \in CallbackProcs, t \in AnyOrderIds : CancelLookup(p, t)
    \/ \E p \in CallbackProcs : CancelSave(p)

CallbackSpec == Init /\ [][CallbackNext /\ UNCHANGED <<walletVars, discountVars>>]_vars

\* The life of an order sold by a staff user: the order endpoint's transitions,
\* each asked by the party allowed to, payment by either route, the validated
\* success callback (one request in flight at a time), a refund and its completion
LifecycleNext ==
    \/ \E o \in OrderIds : OrderCreate(o, "buyer", "admin", 1, 0, 0, 0)
    \/ \E o \in OrderIds : OrderConfirm(o, "buyer")
    \/ \E o \in OrderIds : OrderShip(o, "admin", None, None)
    \/ \E o \in OrderIds : OrderDeliver(o, "buyer")
    \/ \E o \in OrderIds : OrderCancel(o, "buyer")
    \/ \E o \in OrderIds : PaymentCreate(o, "buyer", orders[o].total_amount)
    \/ \E o \in OrderIds : PaymentInitiate(o, "buyer", "SUCCESS")
    \/ \E t \in OrderIds, v \in ValIds :
          SuccessLookup("c1", t, v, [success |-> TRUE, status |-> "VALID"])
    \/ \E p \in CallbackProcs : SuccessFindPayment(p)
    \/ \E p \in CallbackProcs : SuccessSavePayment(p)
    \/ \E p \in CallbackProcs : SuccessConfirmOrder(p)
    \/ \E r \in RefundIds, o \in OrderIds : RefundCreate(r, "buyer", o, o, 1)
    \/ \E r \in RefundIds : RefundComplete(r, "admin")

LifecycleSpec == Init /\ [][LifecycleNext /\ UNCHANGED <<walletVars, discountVars>>]_vars

\* The payments resource used by the buyer and the seller of an order, next to
\* the validated or refused success callback (one request in flight at a time)
PaymentNext ==
    \/ \E o \in OrderIds : OrderCreate(o, "buyer", "seller", 1, 0, 0, 0)
    \/ \E o \in OrderIds, u \in {"buyer", "seller"} : PaymentCreate(o, u, orders[o].total_amount)
    \/ \E o \in OrderIds, u \in {"buyer", "other"}, v \in PaymentStatuses :
          PaymentUpdate(o, u, v)
    \/ \E o \in OrderIds, u \in {"buyer", "seller"} : PaymentRetry(o, u)
    \/ \E o \in OrderIds : PaymentInitiate(o, "buyer", "SUCCESS")
    \/ \E t \in OrderIds, v \in ValIds, r \in ValidationResults : SuccessLookup("c1", t, v, r)
    \/ \E p \in CallbackProcs : SuccessFindPayment(p)
    \/ \E p \in CallbackProcs : SuccessSavePayment(p)
    \/ \E p \in CallbackProcs : SuccessConfirmOrder(p)

PaymentSpec == Init /\ [][PaymentNext /\ UNCHANGED <<walletVars, discountVars>>]_vars

\* Refunds of an order that is sold by a staff user and paid through the
\* payment endpoint: request, approval, completion and update by either party
RefundNext ==
    \/ \E o \in OrderIds : OrderCreate(o, "buyer", "admin", 1, 0, 0, 0)
    \/ \E o \in OrderIds : PaymentCreate(o, "buyer", orders[o].total_amount)
    \/ \E r \in RefundIds, u \in {"buyer", "admin"}, o \in OrderIds, pay \in AnyOrderIds,
             a \in Amounts : RefundCreate(r, u, o, pay, a)
    \/ \E r \in RefundIds, u \in {"buyer", "admin", "other"} : RefundApprove(r, u)
    \/ \E r \in RefundIds, u \in {"buyer", "admin", "other"} : RefundComplete(r, u)
    \/ \E r \in RefundIds, u \in {"buyer", "other"}, v \in RefundStatuses : RefundUpdate(r, u, v)

RefundSpec == Init /\ [][RefundNext /\ UNCHANGED <<walletVars, discountVars>>]_vars

\* Every role-restricted operation asked by a user it is not meant for (the
\* buyer, the staff seller, or for some a third user), next to confirm, cancel,
\* payment and refund request asked by the buyer
AccessNext ==
    \/ \E o \in OrderIds : OrderCreate(o, "buyer", "admin", 1, 0, 0, 0)
    \/ \E o \in OrderIds, u \in {"buyer", "admin", "other"} : OrderConfirm(o, u)
    \/ \E o \in OrderIds : OrderShip(o, "buyer", None, None)
    \/ \E o \in OrderIds : OrderDeliver(o, "admin")
    \/ \E o \in OrderIds, u \in {"buyer", "other"} : OrderCancel(o, u)
    \/ \E o \in OrderIds, u \in {"buyer", "admin"} : PaymentCreate(o, u, orders[o].total_amount)
    \/ \E o \in OrderIds : PaymentRetry(o, "admin")
    \/ \E r \in RefundIds, o \in OrderIds, u \in {"buyer", "admin"} : RefundCreate(r, u, o, o, 1)
    \/ \E r \in RefundIds, u \in {"buyer", "other"} : RefundApprove(r, u)
    \/ \E r \in RefundIds : RefundComplete(r, "buyer")

AccessSpec == Init /\ [][AccessNext /\ UNCHANGED <<walletVars, discountVars>>]_vars

\* Two orders of one buyer paid through the gateway: session initiation for
\* either order, answered or refused by the gateway, and the validated success
\* callback that gives a Payment its transaction id
InitiateOrderIds == 1..(MaxOrders + 1)

InitiateNext ==
    \/ \E o \in InitiateOrderIds : OrderCreate(o, "buyer", "seller", 1, 0, 0, 0)
    \/ \E o \in InitiateOrderIds, u \in {"buyer", "other"}, gw \in {"SUCCESS", "FAILED"} :
          PaymentInitiate(o, u, gw)
    \/ \E t \in InitiateOrderIds, v \in ValIds : SuccessLookup("c1", t, v, [success |-> TRUE, status |-> "VALID"])
    \/ SuccessFindPayment("c1")
    \/ SuccessSavePayment("c1")
    \/ SuccessConfirmOrder("c1")

InitiateSpec == Init /\ [][InitiateNext /\ UNCHANGED <<walletVars, discountVars>>]_vars

\* A stored discount code, validated and applied by two users at any time
DiscountInit ==
    /\ WalletInit
    /\ PayInit
    /\ discount \in Discounts
    /\ dlast = NoDiscountResponse

DiscountNext ==
    \/ \E u \in {"buyer", "other"}, now \in Times, a \in OrderAmounts : DiscountValidate(u, now, a)
    \/ \E u \in {"buyer", "other"}, now \in Times : DiscountApply(u, now)

DiscountSpec == DiscountInit /\ [][DiscountNext /\ UNCHANGED <<walletVars, payVars>>]_vars

(***************************************************************************)
(* Properties                                                              *)
(***************************************************************************)
RECURSIVE Replay(_)
\* The balance obtained by replaying a WalletTransaction log from zero
Replay(log) ==
    IF log = <<>> THEN 0
    ELSE LET t == log[Len(log)]
             rest == SubSeq(log, 1, Len(log) - 1)
         IN IF t.transaction_type = "credit" THEN Replay(rest) + t.amount
                                             ELSE Replay(rest) - t.amount

\* No wallet call is in flight
WalletQuiescent == \A p \in WalletProcs : wproc[p].pc = "idle"

\* C1: every Order's total_amount equals subtotal + tax_amount + shipping_cost
\* - discount_amount in every state the order endpoint can reach.
C1_TotalIsSum ==
    \A o \in DOMAIN orders :
        orders[o].total_amount =
            orders[o].subtotal + orders[o].tax_amount + orders[o].shipping_cost
                - orders[o].discount_amount

\* C2: after any calls of add_balance and deduct_balance on a fresh wallet,
\* balance = total_earned - total_spent, in the row and in every instance.
C2_BalanceIsEarnedMinusSpent ==
    /\ wallet.balance = wallet.total_earned - wallet.total_spent
    /\ \A p \in WalletProcs :
          wproc[p].inst.balance = wproc[p].inst.total_earned - wproc[p].inst.total_spent

\* C2 witness: a credit and a debit of positive amounts have both been recorded
C2_CreditAndDebitDone ==
    /\ WalletQuiescent
    /\ \E i \in 1..Len(wtx), j \in 1..Len(wtx) :
          /\ wtx[i].transaction_type = "credit" /\ wtx[i].amount > 0
          /\ wtx[j].transaction_type = "debit" /\ wtx[j].amount > 0
    /\ wallet.total_spent > 0

\* C3: at every point in time, replaying the WalletTransaction log from zero
\* gives the stored balance.
C3_LogReplaysToBalance == wallet.balance = Replay(wtx)

\* C4: a deduct_balance whose amount exceeds the balance of the wallet it is
\* called on returns False and changes neither the wallet row nor the log.
C4_InsufficientDebitRefused ==
    [][\A p \in WalletProcs :
          (/\ wproc[p].pc = "called"
           /\ wproc[p].op = "debit"
           /\ wproc[p].amount > wproc[p].inst.balance
           /\ wproc'[p] # wproc[p])
          => /\ wallet' = wallet
             /\ wtx' = wtx
             /\ wproc'[p].pc = "idle"
             /\ wproc'[p].ret = "False"]_vars

\* C4 witness: a debit on a wallet that holds a positive balance has returned
\* False, and the balance and the log are those of the credit before it
C4_DebitRefused ==
    /\ \E p \in WalletProcs : wproc[p].pc = "idle" /\ wproc[p].ret = "False"
    /\ wallet.balance > 0
    /\ Len(wtx) = 1
    /\ wallet.balance = wtx[1].amount
    /\ wallet.total_spent = 0

\* C5: balance, total_earned and total_spent are never negative, whatever the
\* amounts add_balance and deduct_balance are called with.
C5_BalancesNonNegative ==
    /\ wallet.balance >= 0
    /\ wallet.total_earned >= 0
    /\ wallet.total_spent >= 0

\* C6: add_balance or deduct_balance called with amount <= 0 changes neither
\* the wallet row nor the WalletTransaction log.
C6_NonPositiveAmountRejected ==
    [][\A p \in WalletProcs :
          (/\ wproc[p].pc # "idle"
           /\ wproc[p].amount <= 0
           /\ wproc'[p] # wproc[p])
          => (wallet' = wallet /\ wtx' = wtx)]_vars

\* C7: of the success callbacks for one order, only one moves the Payment to
\* completed and only one stamps the Order's confirmed_at.
C7_SuccessProcessedOnce ==
    [][\A p \in CallbackProcs :
          /\ (cb[p].pc = "save_payment" /\ payments' # payments)
                => payments[cb[p].tran_id].status # "completed"
          /\ (cb[p].pc = "confirm_order" /\ orders' # orders)
                => orders[cb[p].tran_id].confirmed_at = 0]_vars

\* C8: when no wallet call is in flight, the balance is the sum of the recorded
\* credits minus the recorded debits (no update is lost), and debits of positive
\* amounts never exceed the credits (no overdraft).
C8_NoLostUpdateNoOverdraft ==
    WalletQuiescent =>
        /\ wallet.balance = Replay(wtx)
        /\ (\A i \in 1..Len(wtx) : wtx[i].amount > 0) => Replay(wtx) >= 0

C10_SuccessCreditsSeller ==
    (last.op = "sslcommerz_success" /\ last.result = "success") =>
        /\ payments[last.order].status = "completed"
        /\ orders[last.order].status = "confirmed"
        /\ wallet.balance > 0
        /\ Len(wtx) >= 1

\* The edges the order state machine permits
OrderEdges ==
    {<<"pending", "confirmed">>, <<"confirmed", "processing">>,
     <<"processing", "shipped">>, <<"shipped", "delivered">>,
     <<"pending", "cancelled">>, <<"confirmed", "cancelled">>,
     <<"delivered", "refunded">>, <<"confirmed", "refunded">>}

\* C11: every change of an Order's status, by whatever operation, follows one
\* of the permitted edges of the order state machine.
C11_OrderStatusEdges ==
    [][\A o \in DOMAIN orders \cap DOMAIN orders' :
          orders'[o].status # orders[o].status
             => <<orders[o].status, orders'[o].status>> \in OrderEdges]_vars

\* The statuses from which each order transition is legal
LegalSource ==
    [confirm |-> {"pending"}, ship |-> {"processing"}, deliver |-> {"shipped"},
     cancel |-> {"pending", "confirmed"}]

\* C12: confirm, ship, deliver or cancel asked for an Order whose status is not
\* a legal source of that transition is answered with an error and leaves every
\* field of the Order unchanged.
C12_IllegalTransitionFails ==
    [][\A o \in DOMAIN orders :
          (/\ last' # last \/ orders' # orders
           /\ last'.order = o
           /\ last'.op \in DOMAIN LegalSource
           /\ orders[o].status \notin LegalSource[last'.op])
          => /\ last'.code >= 400
             /\ orders' = orders]_vars

\* C13: an Order whose status is cancelled or refunded keeps that status under
\* every later operation.
C13_TerminalStatusesStay ==
    [][\A o \in DOMAIN orders \cap DOMAIN orders' :
          orders[o].status \in {"cancelled", "refunded"}
             => orders'[o].status = orders[o].status]_vars

\* C14: no operation of the order resource removes an Order record: every
\* order that exists still exists after the step, so their number never decreases.
C14_OrdersNeverDeleted ==
    [][/\ DOMAIN orders \subseteq DOMAIN orders'
       /\ Cardinality(DOMAIN orders') >= Cardinality(DOMAIN orders)]_vars

\* The edges the payment state machine permits
PaymentEdges ==
    {<<"pending", "processing">>, <<"processing", "completed">>,
     <<"pending", "failed">>, <<"processing", "failed">>,
     <<"pending", "cancelled">>, <<"completed", "refunded">>}

\* C15: every change of a Payment's status follows one of the permitted edges
\* of the payment state machine; a completed payment never becomes failed or
\* cancelled.
C15_PaymentStatusEdges ==
    [][\A o \in DOMAIN payments \cap DOMAIN payments' :
          payments'[o].status # payments[o].status
             => <<payments[o].status, payments'[o].status>> \in PaymentEdges]_vars

\* C16: a payment creation or a gateway initiation for an Order that already
\* has a Payment is rejected with an error and leaves that Payment unchanged.
C16_SecondPaymentRejected ==
    [][\A o \in DOMAIN payments :
          (/\ last' # last \/ payments' # payments
           /\ last'.order = o
           /\ last'.op \in {"payment_create", "initiate_sslcommerz"})
          => /\ last'.code >= 400
             /\ payments' = payments]_vars

\* C17: a Payment becomes completed only in the step in which a success
\* callback whose validation passed saves it; no request to the payments
\* resource (create, update, retry) makes a Payment completed.
C17_CompletedOnlyByCallback ==
    [][\A o \in DOMAIN payments' :
          (/\ payments'[o].status = "completed"
           /\ o \in DOMAIN payments => payments[o].status # "completed")
          => \E p \in CallbackProcs :
                /\ cb[p].pc = "save_payment"
                /\ cb[p].tran_id = o
                /\ cb[p].validation = [success |-> TRUE, status |-> "VALID"]]_vars

\* C18: a gateway callback whose transaction identifier matches no Order is
\* answered by the endpoint with an order-not-found error response (a 4xx, not
\* a failure of the endpoint) and changes no Order, Payment, Refund or Wallet state.
C18_UnknownOrderAnswered ==
    [][(last' # last /\ last'.result = "Order not found")
          => /\ last'.code \in 400..499
             /\ orders' = orders
             /\ payments' = payments
             /\ refunds' = refunds
             /\ wallet' = wallet
             /\ wtx' = wtx]_vars

\* C19: a fail callback sets the order's Payment to failed and stores the
\* payload and the error description, a cancel callback sets it to cancelled
\* and stores the payload, and no step of either changes any field of an Order.
C19_FailAndCancelFrame ==
    [][\A p \in CallbackProcs :
          LET o == cb[p].tran_id
          IN /\ (cb'[p] # cb[p] /\ {cb[p].kind, cb'[p].kind} \cap {"fail", "cancel"} # {})
                   => orders' = orders
             /\ (cb[p].pc = "save_failed" /\ cb'[p] # cb[p])
                   => /\ payments'[o].status = "failed"
                      /\ payments'[o].error_message = cb[p].err
                      /\ payments'[o].gateway_response =
                            [kind |-> "fail", tran_id |-> o, val_id |-> 0]
             /\ (cb[p].pc = "save_cancelled" /\ cb'[p] # cb[p])
                   => /\ payments'[o].status = "cancelled"
                      /\ payments'[o].gateway_response =
                            [kind |-> "cancel", tran_id |-> o, val_id |-> 0]]_vars

\* C19 witness: a fail callback carrying an error description has been answered
\* for a pending order, whose Payment now is failed and holds the description
C19_FailRecorded ==
    /\ last.op = "sslcommerz_fail"
    /\ last.code = 200
    /\ last.order \in DOMAIN payments
    /\ payments[last.order].status = "failed"
    /\ payments[last.order].error_message = "declined"
    /\ payments[last.order].gateway_response.kind = "fail"
    /\ orders[last.order].status = "pending"
    /\ orders[last.order].confirmed_at = 0

\* The edges the refund state machine permits
RefundEdges ==
    {<<"pending", "approved">>, <<"approved", "completed">>, <<"pending", "rejected">>}

\* C20: every change of a Refund's status follows pending->approved,
\* approved->completed or pending->rejected; in particular approve changes only
\* a pending refund, complete only an approved one, and completed and rejected
\* refunds never change.
C20_RefundStatusEdges ==
    [][\A r \in DOMAIN refunds \cap DOMAIN refunds' :
          refunds'[r].status # refunds[r].status
             => <<refunds[r].status, refunds'[r].status>> \in RefundEdges]_vars

\* C21: a refund completion that succeeds sets the Order to refunded and debits
\* the seller's Wallet by the refund amount with one debit WalletTransaction.
C21_RefundCompletionDebitsWallet ==
    [][\A r \in DOMAIN refunds \cap DOMAIN refunds' :
          (/\ last' # last \/ refunds' # refunds
           /\ last'.op = "refund_complete"
           /\ last'.code = 200
           /\ refunds'[r].status = "completed")
          => /\ orders'[refunds[r].order].status = "refunded"
             /\ wallet'.balance = wallet.balance - refunds[r].refund_amount
             /\ wtx' = Append(wtx, WalletTransaction("debit", refunds[r].refund_amount))]_vars

RECURSIVE SumAmounts(_)
\* The sum of the refund_amount of the refunds with the given ids
SumAmounts(ids) ==
    IF ids = {} THEN 0
    ELSE LET r == CHOOSE x \in ids : TRUE
         IN refunds[r].refund_amount + SumAmounts(ids \ {r})

\* C22: for every Order, the amounts of its pending and completed Refunds sum
\* to no more than the Order's total_amount.
C22_RefundsWithinTotal ==
    \A o \in DOMAIN orders :
        SumAmounts({r \in DOMAIN refunds :
                      /\ refunds[r].order = o
                      /\ refunds[r].status \in {"pending", "completed"}})
            <= orders[o].total_amount

\* The request was refused and no Order, Payment or Refund row changed
Denied ==
    /\ last'.code \in {400, 403, 404}
    /\ orders' = orders
    /\ payments' = payments
    /\ refunds' = refunds

\* C23: confirm, deliver, payment creation, retry and refund request by a user
\* who is not the buyer, ship by a user who is not the seller, cancel by a user
\* who is neither, and refund approve and complete by a user who is not staff
\* are each refused with an error and change no Order, Payment or Refund.
C23_WrongActorDenied ==
    [][\A u \in Users :
          /\ \A o \in DOMAIN orders \cap {last'.order} :
                /\ (/\ u # orders[o].buyer
                    /\ \/ last'.op = "confirm" /\ OrderConfirm(o, u)
                       \/ last'.op = "deliver" /\ OrderDeliver(o, u)
                       \/ last'.op = "payment_create"
                             /\ PaymentCreate(o, u, orders[o].total_amount)
                       \/ last'.op = "retry" /\ PaymentRetry(o, u)
                       \/ last'.op = "refund_create"
                             /\ \E r \in RefundIds : RefundCreate(r, u, o, o, 1)) => Denied
                /\ (u # orders[o].seller /\ last'.op = "ship"
                       /\ OrderShip(o, u, None, None)) => Denied
                /\ (u \notin {orders[o].buyer, orders[o].seller} /\ last'.op = "cancel"
                       /\ OrderCancel(o, u)) => Denied
          /\ \A r \in DOMAIN refunds :
                (/\ u # "admin"
                 /\ \/ last'.op = "refund_approve" /\ RefundApprove(r, u)
                    \/ last'.op = "refund_complete" /\ RefundComplete(r, u)) => Denied]_vars

\* C23 witness: the buyer, who is not staff, has asked to complete a pending
\* refund of a paid order and was answered 403; the refund is still pending
C23_BuyerRefusedCompletion ==
    /\ last.op = "refund_complete"
    /\ last.code = 403
    /\ \E r \in DOMAIN refunds :
          /\ refunds[r].order = last.order
          /\ refunds[r].status = "pending"
          /\ refunds[r].completed_at = 0
    /\ orders[last.order].status # "refunded"

\* C28: confirm by the buyer on a pending Order succeeds, sets status confirmed
\* and stamps confirmed_at; confirm on an Order that is no longer pending is
\* answered with an error and changes neither status nor confirmed_at.
C28_SecondConfirmFails ==
    [][\A o \in DOMAIN orders :
          (/\ last' # last \/ orders' # orders
           /\ last'.op = "confirm"
           /\ last'.order = o
           /\ last'.code \notin {403, 404})
          => IF orders[o].status = "pending"
             THEN /\ last'.code = 200
                  /\ orders'[o].status = "confirmed"
                  /\ orders'[o].confirmed_at > 0
             ELSE /\ last'.code = 400
                  /\ orders' = orders]_vars

\* C28 witness: the order was confirmed by confirm (it has no Payment), and a
\* second confirm has been answered 400 with the first stamp still in place
C28_SecondConfirmRefused ==
    /\ last.op = "confirm"
    /\ last.code = 400
    /\ last.order \notin DOMAIN payments
    /\ orders[last.order].status = "confirmed"
    /\ orders[last.order].confirmed_at = 1


\* C24: is_valid is false exactly when the status is not active, or now is
\* outside [valid_from, valid_until], or max_uses is set (0 included) and
\* times_used >= max_uses; apply answers 400 exactly when is_valid is false
C24_IsValidMatchesRule ==
    dlast.op = "apply"
    => (dlast.code = 400
        <=> \/ discount.status # "active"
            \/ dlast.now < discount.valid_from
            \/ dlast.now > discount.valid_until
            \/ /\ discount.max_uses # {}
               /\ discount.times_used >= ValueOf(discount.max_uses))

\* C25: an accepted validation returns amount * discount_value / 100 for a
\* percentage discount, capped at max_discount_amount whenever the cap is
\* set (0 included), and discount_value for a fixed discount
C25_DiscountComputedWithCap ==
    (dlast.op = "validate" /\ dlast.code = 200)
    => dlast.discount_amount =
          IF discount.discount_type = "percentage"
          THEN IF discount.max_discount_amount # {}
               THEN Min(dlast.order_amount * discount.discount_value,
                        100 * ValueOf(discount.max_discount_amount))
               ELSE dlast.order_amount * discount.discount_value
          ELSE 100 * discount.discount_value

\* C26: the discount an accepted validation returns never exceeds the order
\* amount it was computed for
C26_DiscountWithinOrderAmount ==
    (dlast.op = "validate" /\ dlast.code = 200)
    => dlast.discount_amount <= 100 * dlast.order_amount

\* C27: every successful application of a discount code increments its
\* times_used by exactly one
C27_ApplyCountsUse ==
    [][(dlast' # dlast /\ dlast'.op = "apply" /\ dlast'.code = 200)
       => discount'.times_used = discount.times_used + 1]_vars


\* C29: in every state a completed Payment has processed_at set and belongs
\* to an Order that has left pending and has confirmed_at set
C29_CompletedPaymentHasConfirmedOrder ==
    \A o \in DOMAIN payments \cap DOMAIN orders :
        payments[o].status = "completed"
        => /\ orders[o].status # "pending"
           /\ orders[o].confirmed_at > 0
           /\ payments[o].processed_at > 0


\* C30: initiating a gateway session for an order never fails on the
\* transaction id of another order's Payment, and a gateway error leaves the
\* Order as it was and the Payment pending, unchanged or absent
C30_InitiateIndependentPerOrder ==
    [][(/\ last' # last \/ payments' # payments
        /\ last'.op = "initiate_sslcommerz"
        /\ last'.order \in DOMAIN orders)
       => LET o == last'.order
          IN /\ last'.code # 500
             /\ last'.code = 400
                => /\ orders' = orders
                   /\ o \in DOMAIN payments => payments' = payments
                   /\ o \notin DOMAIN payments
                      => o \in DOMAIN payments' /\ payments'[o].status = "pending"]_vars

====
